---- MODULE Spec2Model ----
(***************************************************************************)
(* Model of the telemetry dump decoder, sac2020_lib/telem_decode.cpp.      *)
(*                                                                         *)
(* The dump file is a sequence of cells, one cell per field of             *)
(* MainStateVector_t, so that one record occupies RecordSize cells.  A     *)
(* floating-point cell holds its value in units of 10^-5, so that the      *)
(* "%.4f" conversion has to round.  Text (the CSV file, the record buffer) *)
(* is a sequence of tokens: literal separators and rendered fields.        *)
(***************************************************************************)
EXTENDS Integers, Sequences, FiniteSets, TLC

\* ------------------------------------------------------------------ bounds
MaxRecords == 2
MaxRuns == 2

\* --------------------------------------------- sac2020_state.h (not in src)
PRELTOFF == 0
PWFLIGHT == 1
CRUISING == 2
CRSCANRD == 3
FALLDROG == 4
FALLMAIN == 5
CONCLUDE == 6

\* Declaration order of the fields of MainStateVector_t.
Fields ==
    << "time", "state", "altitude", "velocity", "acceleration", "pressure",
       "temperature", "baro_altitude", "imu_temp", "accel_x", "accel_y",
       "accel_z", "accel_vertical", "gyro_x", "gyro_y", "gyro_z", "quat_w",
       "quat_x", "quat_y", "quat_z", "launchpad_altitude" >>

\* sizeof(MainStateVector_t), in cells.
RecordSize == Len(Fields)

\* Position of each field in the record.
FieldIndex == [f \in {Fields[i] : i \in 1..Len(Fields)} |-> CHOOSE i \in 1..Len(Fields) : Fields[i] = f]

\* vec.f for a vec filled by fread.
Field(v, f) == v[FieldIndex[f]]

\* ------------------------------------------------------------------- text
Lit(s) == [k |-> "lit", s |-> s, n |-> 0, d |-> 0]

\* "%s"
FmtS(s) == [k |-> "s", s |-> s, n |-> 0, d |-> 0]

\* "%d"
FmtD(x) == [k |-> "d", s |-> IF x < 0 THEN "-" ELSE "", n |-> IF x < 0 THEN -x ELSE x, d |-> 0]

\* "%.4f" of a value given in units of 10^-5: rounded to 4 fractional digits.
FmtF4(x) ==
    LET mag == IF x < 0 THEN -x ELSE x
        q == (mag + 5) \div 10
    IN [k |-> "f", s |-> IF x < 0 /\ q > 0 THEN "-" ELSE "", n |-> q \div 10000, d |-> q % 10000]

Comma == Lit(",")
Newline == Lit("\n")

\* ------------------------------------------------------------- state_name
\* A switch that lost the case of the last enumerator.
state_name_short(state) ==
    CASE state = PRELTOFF -> "PRELTOFF"
      [] state = PWFLIGHT -> "PWFLIGHT"
      [] state = CRUISING -> "CRUISING"
      [] state = CRSCANRD -> "CRSCANRD"
      [] state = FALLDROG -> "FALLDROG"
      [] state = FALLMAIN -> "FALLMAIN"
      [] OTHER -> "UNKNOWN"

state_name(state) ==
    CASE state = PRELTOFF -> "PRELTOFF"
      [] state = PWFLIGHT -> "PWFLIGHT"
      [] state = CRUISING -> "CRUISING"
      [] state = CRSCANRD -> "CRSCANRD"
      [] state = FALLDROG -> "FALLDROG"
      [] state = FALLMAIN -> "FALLMAIN"
      [] state = CONCLUDE -> "CONCLUDE"
      [] OTHER -> "UNKNOWN"

\* ------------------------------------------------------------ header, row
HeaderNames ==
    << "Time", "State", "Filtered Altitude", "Filtered Velocity",
       "Filtered Acceleration", "Pressure", "Temperature",
       "Barometer Altitude", "IMU Temperature", "Accel X", "Accel Y",
       "Accel Z", "Accel Vertical", "Gyro X", "Gyro Y", "Gyro Z", "Quat W",
       "Quat X", "Quat Y", "Quat Z", "LP Altitude" >>

\* A header literal without its final newline.
HeaderRow_unterminated ==
    [i \in 1..(2 * Len(HeaderNames) - 1) |->
        IF i % 2 = 1 THEN Lit(HeaderNames[(i + 1) \div 2]) ELSE Comma]

\* The string literal handed to the first fputs.
HeaderRow ==
    [i \in 1..(2 * Len(HeaderNames)) |->
        IF i % 2 = 1 THEN Lit(HeaderNames[(i + 1) \div 2])
        ELSE IF i = 2 * Len(HeaderNames) THEN Newline ELSE Comma]

\* The format string of sprintf, split into conversions and literal text.
RowFormat ==
    << "%.4f", ",", "%s", ",", "%.4f", ",", "%.4f", ",", "%.4f", ",", "%.4f", ",",
       "%.4f", ",", "%.4f", ",", "%d", ",", "%.4f", ",", "%.4f", ",",
       "%.4f", ",", "%.4f", ",", "%.4f", ",", "%.4f", ",", "%.4f", ",", "%.4f", ",",
       "%.4f", ",", "%.4f", ",", "%.4f", ",", "%.4f", "\n" >>

\* An argument list with two neighbours exchanged.
RowArgs_swapped(v) ==
    << Field(v, "time"), state_name(Field(v, "state")), Field(v, "altitude"),
       Field(v, "velocity"), Field(v, "acceleration"), Field(v, "pressure"),
       Field(v, "temperature"), Field(v, "baro_altitude"), Field(v, "imu_temp"),
       Field(v, "accel_x"), Field(v, "accel_y"), Field(v, "accel_z"),
       Field(v, "accel_vertical"), Field(v, "gyro_y"), Field(v, "gyro_x"),
       Field(v, "gyro_z"), Field(v, "quat_w"), Field(v, "quat_x"),
       Field(v, "quat_y"), Field(v, "quat_z"), Field(v, "launchpad_altitude") >>

\* The argument list of sprintf.
RowArgs(v) ==
    << Field(v, "time"), state_name(Field(v, "state")), Field(v, "altitude"),
       Field(v, "velocity"), Field(v, "acceleration"), Field(v, "pressure"),
       Field(v, "temperature"), Field(v, "baro_altitude"), Field(v, "imu_temp"),
       Field(v, "accel_x"), Field(v, "accel_y"), Field(v, "accel_z"),
       Field(v, "accel_vertical"), Field(v, "gyro_x"), Field(v, "gyro_y"),
       Field(v, "gyro_z"), Field(v, "quat_w"), Field(v, "quat_x"),
       Field(v, "quat_y"), Field(v, "quat_z"), Field(v, "launchpad_altitude") >>

IsConversion(c) == c \in {"%.4f", "%s", "%d"}

\* For each piece of the format, the number of conversions up to it: the
\* argument a conversion consumes.
ArgumentOf ==
    [j \in 1..Len(RowFormat) |-> Cardinality({i \in 1..j : IsConversion(RowFormat[i])})]

\* sprintf(record, RowFormat, args...): each conversion renders its
\* argument, any other text is copied.
sprintf(args) ==
    [j \in 1..Len(RowFormat) |->
        CASE RowFormat[j] = "%.4f" -> FmtF4(args[ArgumentOf[j]])
          [] RowFormat[j] = "%s" -> FmtS(args[ArgumentOf[j]])
          [] RowFormat[j] = "%d" -> FmtD(args[ArgumentOf[j]])
          [] OTHER -> Lit(RowFormat[j])]

FormatRow(v) == sprintf(RowArgs(v))

\* ------------------------------------------------------------ dump files
\* One record as the flight computer lays it down: every floating-point
\* field differs from the others, odd cells are negative.
SampleRecord(code, seed) ==
    [i \in 1..RecordSize |->
        CASE Fields[i] = "state" -> code
          [] Fields[i] = "time" -> (seed + 1) * 150000 + 4
          [] Fields[i] = "imu_temp" -> 25 - 30 * seed
          [] OTHER -> IF i % 2 = 0 THEN i * 100002 + 6 * seed
                      ELSE -(i * 100002 + 6 * seed)]

\* Records of the dump files considered: powered flight, the last
\* enumerator, the first code past the enumeration and the largest uint8.
Samples ==
    {SampleRecord(PWFLIGHT, 0), SampleRecord(CONCLUDE, 1), SampleRecord(CONCLUDE + 1, 0),
     SampleRecord(255, 2)}

RECURSIVE Flatten(_)
Flatten(recs) == IF recs = << >> THEN << >> ELSE Head(recs) \o Flatten(Tail(recs))

\* Lengths of the truncated trailing fragment.
FragLens == {0, 1, RecordSize - 1}

DumpFiles ==
    {Flatten(recs) \o SubSeq(SampleRecord(PWFLIGHT, 0), 1, f) :
        recs \in UNION {[1..n -> Samples] : n \in 0..MaxRecords}, f \in FragLens}

\* ------------------------------------------------------------------ state
VARIABLES
    file,          \* content of the dump file av[1]
    csv,           \* content of the output file av[1] + ".csv"
    run,           \* number of the current invocation of the program
    pc,            \* position of main
    p_fin,         \* "NULL", "open" or "closed"
    p_fout,        \* "NULL", "open" or "closed"
    pos,           \* file position indicator of p_fin
    vec,           \* MainStateVector_t vec; << >> while indeterminate
    record,        \* static char record[1024]
    packet_count,  \* uint32_t packet_count
    console,       \* what printf has put on stdout
    calls,         \* history: stdio calls made by this run
    prev           \* history: output and report of the previous run, if it decoded

vars == << file, csv, run, pc, p_fin, p_fout, pos, vec, record, packet_count,
           console, calls, prev >>

NoCalls == [fopen_fin |-> 0, fopen_fout |-> 0, fread |-> 0, fputs |-> 0,
            fclose_fin |-> 0, fclose_fout |-> 0, fclose_null |-> 0]

NoPrev == [decoded |-> FALSE, csv |-> << >>, console |-> << >>]

Called(f) == [calls EXCEPT ![f] = @ + 1]

\* Entry of main: statics zeroed, locals indeterminate.
ProcessStart ==
    /\ pc' = "fopen_in"
    /\ p_fin' = "NULL"
    /\ p_fout' = "NULL"
    /\ pos' = 0
    /\ vec' = << >>
    /\ record' = << >>
    /\ packet_count' = 0
    /\ console' = << >>
    /\ calls' = NoCalls

Init ==
    /\ file \in DumpFiles
    /\ csv = << >>
    /\ run = 1
    /\ pc = "fopen_in"
    /\ p_fin = "NULL"
    /\ p_fout = "NULL"
    /\ pos = 0
    /\ vec = << >>
    /\ record = << >>
    /\ packet_count = 0
    /\ console = << >>
    /\ calls = NoCalls
    /\ prev = NoPrev

\* p_fin = fopen(av[1], "rb"): NULL when the file cannot be opened.
FopenIn ==
    /\ pc = "fopen_in"
    /\ \E ok \in BOOLEAN : p_fin' = IF ok THEN "open" ELSE "NULL"
    /\ pos' = 0
    /\ calls' = Called("fopen_fin")
    /\ pc' = "fopen_out"
    /\ UNCHANGED << file, csv, run, p_fout, vec, record, packet_count, console, prev >>

\* fopen(name, "a"): keeps what the file holds.
fopen_a(content) == content

\* fopen(name, "w"): creates the file or truncates it to length zero.
fopen_w(content) == << >>

\* p_fout = fopen(fout_name.c_str(), "w"), unchecked.
FopenOut ==
    /\ pc = "fopen_out"
    /\ \E ok \in BOOLEAN :
          /\ p_fout' = IF ok THEN "open" ELSE "NULL"
          /\ csv' = IF ok THEN fopen_w(csv) ELSE csv
    /\ calls' = Called("fopen_fout")
    /\ pc' = "fputs_header"
    /\ UNCHANGED << file, run, p_fin, pos, vec, record, packet_count, console, prev >>

\* A write that lands in front of what the file holds.
fputs_front(s, content) == s \o content

\* fputs(s, p_fout) on an open stream.
fputs(s, content) == content \o s

\* fputs(header, p_fout); a null p_fout is undefined behaviour: the process
\* dies or the call fails without writing.
FputsHeader ==
    /\ pc = "fputs_header"
    /\ calls' = Called("fputs")
    /\ IF p_fout = "open"
       THEN /\ csv' = fputs(HeaderRow, csv)
            /\ pc' = "fread"
       ELSE /\ csv' = csv
            /\ pc' \in {"crashed", "fread"}
    /\ UNCHANGED << file, run, p_fin, p_fout, pos, vec, record, packet_count, console, prev >>

\* Bytes fread can still deliver.
Remaining == Len(file) - pos

\* A fread that needs one byte more than the item to report it.
fread_items_strict(remaining) == IF remaining > RecordSize THEN 1 ELSE 0

\* fread(&vec, sizeof(vec), 1, p_fin): number of complete items read.
fread_items(remaining) == IF remaining >= RecordSize THEN 1 ELSE 0

\* A fread that leaves an incomplete last item unread.
fread_cells_whole(remaining) == IF remaining >= RecordSize THEN RecordSize ELSE 0

\* Cells fread copies into vec and advances the position by.
fread_cells(remaining) == IF remaining >= RecordSize THEN RecordSize ELSE remaining

\* vec after its first cells were overwritten by bytes.
Overwrite(v, bytes) ==
    [i \in 1..(IF Len(v) > Len(bytes) THEN Len(v) ELSE Len(bytes)) |->
        IF i <= Len(bytes) THEN bytes[i] ELSE v[i]]

\* packet_count++ on a uint32_t; a dump of fewer than 2^32 records never
\* wraps it.
Increment(n) == n + 1

\* One iteration of the while loop: fread delivers a record, the body counts
\* it, formats it and writes the row.
FreadRecord ==
    /\ pc = "fread"
    /\ p_fin = "open"
    /\ fread_items(Remaining) > 0
    /\ vec' = Overwrite(vec, SubSeq(file, pos + 1, pos + fread_cells(Remaining)))
    /\ pos' = pos + fread_cells(Remaining)
    /\ packet_count' = Increment(packet_count)
    /\ record' = FormatRow(vec')
    /\ calls' = [calls EXCEPT !.fread = @ + 1, !.fputs = @ + 1]
    /\ IF p_fout = "open"
       THEN /\ csv' = fputs(record', csv)
            /\ pc' = "fread"
       ELSE /\ csv' = csv
            /\ pc' \in {"crashed", "fread"}
    /\ UNCHANGED << file, run, p_fin, p_fout, console, prev >>

\* The fread that ends the loop: fewer than sizeof(vec) bytes are left; the
\* ones there are land in vec and the position moves past them.
FreadEnd ==
    /\ pc = "fread"
    /\ p_fin = "open"
    /\ fread_items(Remaining) = 0
    /\ LET n == fread_cells(Remaining)
       IN /\ vec' = IF n = 0 THEN vec ELSE Overwrite(vec, SubSeq(file, pos + 1, pos + n))
          /\ pos' = pos + n
    /\ calls' = Called("fread")
    /\ pc' = "fclose_in"
    /\ UNCHANGED << file, csv, run, p_fin, p_fout, record, packet_count, console, prev >>

\* fread on a null p_fin is undefined behaviour: the process dies or the
\* call fails and returns 0.
FreadNull ==
    /\ pc = "fread"
    /\ p_fin = "NULL"
    /\ calls' = Called("fread")
    /\ pc' \in {"crashed", "fclose_in"}
    /\ UNCHANGED << file, csv, run, p_fin, p_fout, pos, vec, record, packet_count, console, prev >>

\* fclose(p_fin), unchecked; undefined on a null pointer.
FcloseIn ==
    /\ pc = "fclose_in"
    /\ IF p_fin = "open"
       THEN /\ p_fin' = "closed"
            /\ calls' = Called("fclose_fin")
            /\ pc' = "fclose_out"
       ELSE /\ p_fin' = p_fin
            /\ calls' = [calls EXCEPT !.fclose_fin = @ + 1, !.fclose_null = @ + 1]
            /\ pc' \in {"crashed", "fclose_out"}
    /\ UNCHANGED << file, csv, run, p_fout, pos, vec, record, packet_count, console, prev >>

\* fclose(p_fout), unchecked; undefined on a null pointer.
FcloseOut ==
    /\ pc = "fclose_out"
    /\ IF p_fout = "open"
       THEN /\ p_fout' = "closed"
            /\ calls' = Called("fclose_fout")
            /\ pc' = "printf"
       ELSE /\ p_fout' = p_fout
            /\ calls' = [calls EXCEPT !.fclose_fout = @ + 1, !.fclose_null = @ + 1]
            /\ pc' \in {"crashed", "printf"}
    /\ UNCHANGED << file, csv, run, p_fin, pos, vec, record, packet_count, console, prev >>

\* printf("Decoded %d telemetry packets\n", packet_count), then main falls
\* off its end: exit status 0.
Printf ==
    /\ pc = "printf"
    /\ console' = Append(console, FmtD(packet_count))
    /\ pc' = "exit"
    /\ UNCHANGED << file, csv, run, p_fin, p_fout, pos, vec, record, packet_count, calls, prev >>

Terminated == pc \in {"exit", "crashed"}

\* The decoder is invoked again on the same dump file.
Rerun ==
    /\ Terminated
    /\ run < MaxRuns
    /\ run' = run + 1
    /\ prev' = IF pc = "exit" /\ p_fin = "closed" /\ p_fout = "closed"
               THEN [decoded |-> TRUE, csv |-> csv, console |-> console]
               ELSE NoPrev
    /\ ProcessStart
    /\ UNCHANGED << file, csv >>

Step ==
    \/ FopenIn
    \/ FopenOut
    \/ FputsHeader
    \/ FreadRecord
    \/ FreadEnd
    \/ FreadNull
    \/ FcloseIn
    \/ FcloseOut
    \/ Printf

Next ==
    \/ FopenIn
    \/ FopenOut
    \/ FputsHeader
    \/ FreadRecord
    \/ FreadEnd
    \/ FreadNull
    \/ FcloseIn
    \/ FcloseOut
    \/ Printf
    \/ Rerun

Spec == Init /\ [][Next]_vars

\* main runs to its end without suspension: every enabled step is taken.
FairSpec == Spec /\ WF_vars(Step)

TypeOK ==
    /\ pc \in {"fopen_in", "fopen_out", "fputs_header", "fread", "fclose_in",
               "fclose_out", "printf", "exit", "crashed"}
    /\ p_fin \in {"NULL", "open", "closed"}
    /\ p_fout \in {"NULL", "open", "closed"}
    /\ pos \in 0..Len(file)
    /\ packet_count \in 0..MaxRecords
    /\ run \in 1..MaxRuns

\* ================================================================ claims
\* Lines of a text: the k-th line ends at the k-th newline; what follows
\* the last newline, if anything, is one more line.
NewlinesOf(text) == {i \in 1..Len(text) : text[i] = Newline}
Lines(text) ==
    LET nl == NewlinesOf(text)
        n == Cardinality(nl)
        end == [k \in 1..n |-> CHOOSE i \in nl : Cardinality({j \in nl : j <= i}) = k]
        tail == IF text # << >> /\ text[Len(text)] # Newline THEN 1 ELSE 0
    IN [k \in 1..(n + tail) |->
           SubSeq(text, (IF k = 1 THEN 0 ELSE end[k - 1]) + 1,
                        IF k <= n THEN end[k] ELSE Len(text))]
NumLines(text) == Len(Lines(text))

\* Number of complete records of the dump file, and its k-th record.
Complete == Len(file) \div RecordSize
RecordAt(k) == SubSeq(file, (k - 1) * RecordSize + 1, k * RecordSize)

\* Both streams were acquired by the current run.
BothOpened == p_fin \in {"open", "closed"} /\ p_fout \in {"open", "closed"}

\* The run decoded to its end: main returned with both streams acquired.
Decoded == pc = "exit" /\ BothOpened

\* The phases of the decoder loop.
Reading == pc = "fread"
Done == pc \in {"fclose_in", "fclose_out", "printf", "exit"}

\* C1: a run that acquired both streams reports floor(L / S), the number of
\* complete records of the L-byte dump, and has written exactly that many
\* data rows after the header; a trailing fragment of L mod S bytes adds no
\* row and does not change the count.
C1_CountIsCompleteRecords ==
    Decoded =>
        /\ packet_count = Complete
        /\ console = << FmtD(Complete) >>
        /\ Len(Lines(csv)) = 1 + Complete
        /\ Len(csv) = Len(HeaderRow) + Complete * Len(RowFormat)

C1_Witness ==
    /\ Decoded
    /\ Len(file) % RecordSize # 0
    /\ Complete = MaxRecords
    /\ console = << FmtD(MaxRecords) >>

\* The flight-state enumeration: each code with the name of its enumerator.
Enumeration ==
    { << PRELTOFF, "PRELTOFF" >>, << PWFLIGHT, "PWFLIGHT" >>, << CRUISING, "CRUISING" >>,
      << CRSCANRD, "CRSCANRD" >>, << FALLDROG, "FALLDROG" >>, << FALLMAIN, "FALLMAIN" >>,
      << CONCLUDE, "CONCLUDE" >> }
StateCodes == {e[1] : e \in Enumeration}
CanonicalLabel(code) ==
    IF code \in StateCodes THEN (CHOOSE e \in Enumeration : e[1] = code)[2] ELSE "UNKNOWN"

\* Data rows of the output file: its lines after the first.
DataRows(text) == LET l == Lines(text) IN [k \in 1..(Len(l) - 1) |-> l[k + 1]]

StateNameIsCanonical == \A code \in 0..255 : state_name(code) = CanonicalLabel(code)
LabelsAreDistinct ==
    /\ Cardinality(StateCodes) = 7
    /\ Cardinality({state_name(code) : code \in StateCodes} \cup {"UNKNOWN"}) = 8

\* C2: state_name is total over the 8-bit codes: each of the seven
\* flight-state codes returns the name of its enumerator, the seven labels
\* are pairwise distinct and none is the sentinel, every other code returns
\* "UNKNOWN"; the label of every row written is the one of its record's code.
C2_StateNameTotal ==
    /\ StateNameIsCanonical
    /\ LabelsAreDistinct
    /\ LET rows == DataRows(csv)
       IN \A k \in 1..Len(rows) :
             rows[k][3] = FmtS(CanonicalLabel(Field(RecordAt(k), "state")))

C2_Witness ==
    /\ Len(DataRows(csv)) = 2
    /\ Field(RecordAt(1), "state") = CONCLUDE
    /\ DataRows(csv)[1][3].s = "CONCLUDE"
    /\ Field(RecordAt(2), "state") = 255
    /\ DataRows(csv)[2][3].s = "UNKNOWN"

\* The order of the fields of a row, and the columns of line 1.
ClaimedOrder ==
    << "time", "state", "altitude", "velocity", "acceleration", "pressure",
       "temperature", "baro_altitude", "imu_temp", "accel_x", "accel_y",
       "accel_z", "accel_vertical", "gyro_x", "gyro_y", "gyro_z", "quat_w",
       "quat_x", "quat_y", "quat_z", "launchpad_altitude" >>
ClaimedColumns ==
    << "Time", "State", "Filtered Altitude", "Filtered Velocity",
       "Filtered Acceleration", "Pressure", "Temperature", "Barometer Altitude",
       "IMU Temperature", "Accel X", "Accel Y", "Accel Z", "Accel Vertical",
       "Gyro X", "Gyro Y", "Gyro Z", "Quat W", "Quat X", "Quat Y", "Quat Z",
       "LP Altitude" >>

\* What a field of a record reads as in a row.
Rendered(name, value) ==
    IF name = "state" THEN FmtS(CanonicalLabel(value))
    ELSE IF name = "imu_temp" THEN FmtD(value)
    ELSE FmtF4(value)

\* Fields of a line: the tokens between its separators.
IsSeparator(t) == t.k = "lit" /\ t.s \in {",", "\n"}
FieldsOfLine(line) == SelectSeq(line, LAMBDA t : ~IsSeparator(t))

\* A line of n fields, one token each, a single comma between two of them,
\* none after the last, closed by a single newline.
WellFormedLine(line, n) ==
    /\ Len(line) = 2 * n
    /\ Len(FieldsOfLine(line)) = n
    /\ \A j \in 1..Len(line) :
          IF j % 2 = 1 THEN ~IsSeparator(line[j])
          ELSE line[j] = (IF j = Len(line) THEN Newline ELSE Comma)

\* C7: every data row has exactly 21 comma-separated fields, the i-th being
\* the i-th field of ClaimedOrder of its record, as many and in the same
\* order as the header's column names; the second field is the resolved
\* state label and not the numeric code; no trailing comma, one newline.
C7_RowLayout ==
    /\ Len(ClaimedOrder) = 21
    /\ Len(FieldsOfLine(HeaderRow)) = 21
    /\ LET rows == DataRows(csv)
       IN \A k \in 1..Len(rows) :
             /\ WellFormedLine(rows[k], 21)
             /\ \A i \in 1..21 :
                   FieldsOfLine(rows[k])[i]
                       = Rendered(ClaimedOrder[i], Field(RecordAt(k), ClaimedOrder[i]))
             /\ rows[k][3].k = "s"
             /\ rows[k][3].s = CanonicalLabel(Field(RecordAt(k), "state"))
    /\ record # << >> => WellFormedLine(record, 21)

C7_Witness ==
    /\ Len(DataRows(csv)) = 1
    /\ record = DataRows(csv)[1]
    /\ Field(vec, "state") = 255
    /\ record[3] = FmtS("UNKNOWN")
    /\ record[17].s = "-"

\* Line 1 of the output file.
ClaimedHeader ==
    [j \in 1..42 |->
        IF j % 2 = 1 THEN Lit(ClaimedColumns[(j + 1) \div 2])
        ELSE IF j = 42 THEN Newline ELSE Comma]

\* The row of a record.
ClaimedRow(rec) ==
    [j \in 1..42 |->
        IF j % 2 = 1
        THEN Rendered(ClaimedOrder[(j + 1) \div 2], Field(rec, ClaimedOrder[(j + 1) \div 2]))
        ELSE IF j = 42 THEN Newline ELSE Comma]

\* The header and the rows of the first n records of the dump file.
RECURSIVE ClaimedOutput(_)
ClaimedOutput(n) ==
    IF n = 0 THEN ClaimedHeader ELSE ClaimedOutput(n - 1) \o ClaimedRow(RecordAt(n))

\* C4: in a run that acquired both streams, once the header is written the
\* output is the header row as line 1, written once and before any data
\* row, followed by one row per record decoded so far, in the order of the
\* records in the input, the k-th row carrying the label of the k-th
\* record's state code; at the end there is one row per complete record.
C4_HeaderThenRowsInOrder ==
    (BothOpened /\ pc \notin {"fopen_in", "fopen_out", "fputs_header"}) =>
        /\ csv = ClaimedOutput(packet_count)
        /\ LET l == Lines(csv)
           IN /\ Len(l) = 1 + packet_count
              /\ l[1] = ClaimedHeader
              /\ \A k \in 2..Len(l) :
                    /\ l[k] # ClaimedHeader
                    /\ l[k][3] = FmtS(CanonicalLabel(Field(RecordAt(k - 1), "state")))
        /\ Done => packet_count = Complete

\* A 2-record input, powered flight then an out-of-range code: 3 lines,
\* state fields PWFLIGHT and UNKNOWN.
C4_Witness ==
    /\ Decoded
    /\ Len(file) = 2 * RecordSize
    /\ Field(RecordAt(1), "state") = PWFLIGHT
    /\ Field(RecordAt(2), "state") = 255
    /\ Len(Lines(csv)) = 3
    /\ Lines(csv)[2][3].s = "PWFLIGHT"
    /\ Lines(csv)[3][3].s = "UNKNOWN"

\* C8: an empty dump file that opens, with an output file that opens, ends in
\* a normal return of main with only the header row in the output file and
\* a reported count of 0.
C8_EmptyInput ==
    (file = << >> /\ BothOpened) =>
        /\ pc # "crashed"
        /\ packet_count = 0
        /\ Terminated => (pc = "exit" /\ csv = ClaimedHeader /\ console = << FmtD(0) >>)
        /\ pc \notin {"fopen_in", "fopen_out", "fputs_header"} => csv = ClaimedHeader

C8_Witness ==
    /\ file = << >>
    /\ Decoded
    /\ Len(Lines(csv)) = 1
    /\ console = << FmtD(0) >>

\* C9: two runs of the decoder on the same dump file that both acquired
\* their streams leave the same output file, header and rows in the same
\* order, and report the same count, whatever the output file held before.
C9_Deterministic ==
    (run > 1 /\ Decoded /\ prev.decoded) =>
        /\ csv = prev.csv
        /\ console = prev.console

C9_Witness ==
    /\ run = 2
    /\ Decoded
    /\ prev.decoded
    /\ Len(Lines(prev.csv)) = 1 + MaxRecords
    /\ Len(file) % RecordSize # 0

\* The run is past the two fopen calls and the header.
InLoopOrAfter == pc \notin {"fopen_in", "fopen_out", "fputs_header"}

\* C10 as stated: in every reachable state of a run on acquired streams the
\* stream position is the record size times the count, and the record size
\* times the number of rows written.
C10_PositionIsSizeTimesCount ==
    (BothOpened /\ InLoopOrAfter) =>
        /\ pos = RecordSize * packet_count
        /\ pos = RecordSize * Len(DataRows(csv))

\* C10, amended: while the decoder is Reading the stream position is the
\* record size times the count and times the number of rows written; each
\* successful read advances it by exactly one record size and the count by
\* one; it never decreases within a run; the read that ends the loop moves
\* it over the trailing fragment, so that once Done it is the length of the
\* input, record size times count plus the L mod S dropped bytes.
C10_PositionWhileReading ==
    /\ [](p_fin = "open" /\ Reading =>
             /\ pos = RecordSize * packet_count
             /\ p_fout = "open" => pos = RecordSize * Len(DataRows(csv)))
    /\ [](p_fin \in {"open", "closed"} /\ Done =>
             /\ pos = Len(file)
             /\ pos = RecordSize * packet_count + (Len(file) % RecordSize)
             /\ p_fout \in {"open", "closed"} => packet_count = Len(DataRows(csv)))
    /\ [][run' = run =>
             /\ pos' >= pos
             /\ packet_count' # packet_count =>
                   /\ packet_count' = packet_count + 1
                   /\ pos' = pos + RecordSize
                   /\ SubSeq(file, pos + 1, pos') = vec']_vars

C10_Witness ==
    /\ BothOpened
    /\ Done
    /\ packet_count = MaxRecords
    /\ pos = Len(file)
    /\ pos = RecordSize * packet_count + (RecordSize - 1)

\* C5: on acquired streams the loop is either Reading or Done and never in
\* an error state; Reading moves to Done exactly when fewer than one full
\* record remains (nothing, or a fragment); Done is terminal: within the
\* run no read, no row write and no count change follows it; and every run
\* that starts Reading reaches Done.
C5_ReadingThenDone ==
    /\ [](BothOpened /\ InLoopOrAfter => (Reading \/ Done) /\ ~(Reading /\ Done))
    /\ [][Reading /\ p_fin = "open" /\ Done' => Remaining < RecordSize]_vars
    /\ [][Reading /\ p_fin = "open" /\ Remaining < RecordSize => Done']_vars
    /\ [][Reading /\ p_fin = "open" /\ Remaining >= RecordSize /\ p_fout = "open" => Reading']_vars
    /\ [][BothOpened /\ Done /\ run' = run =>
             /\ Done'
             /\ calls'.fread = calls.fread
             /\ calls'.fputs = calls.fputs
             /\ csv' = csv
             /\ pos' = pos
             /\ packet_count' = packet_count]_vars
    /\ [](BothOpened /\ Reading => <>(Done /\ BothOpened))

C5_Witness ==
    /\ pc = "fclose_in"
    /\ BothOpened
    /\ packet_count = MaxRecords
    /\ Len(file) % RecordSize = 1
    /\ calls.fread = MaxRecords + 1

\* C3: when a stream cannot be opened the run ends in a failure that differs
\* from the decode of an empty input, signalled before anything is written
\* to the output and before any read is attempted.
C3_OpenFailureSignalledFirst ==
    (pc \notin {"fopen_in", "fopen_out"} /\ (p_fin = "NULL" \/ p_fout = "NULL")) =>
        /\ calls.fputs = 0
        /\ calls.fread = 0
        /\ console = << >>
        /\ pc # "exit"

\* C6: each stream is acquired once at the start of a run, every acquired
\* stream is released exactly once on every exit path, and no release is
\* applied to a stream that was not acquired.
C6_AcquiredOnceReleasedOnce ==
    /\ calls.fopen_fin <= 1 /\ calls.fopen_fout <= 1
    /\ InLoopOrAfter => calls.fopen_fin = 1 /\ calls.fopen_fout = 1
    /\ calls.fclose_null = 0
    /\ p_fin = "NULL" => calls.fclose_fin = 0
    /\ p_fout = "NULL" => calls.fclose_fout = 0
    /\ Terminated =>
          /\ p_fin # "open" /\ p_fout # "open"
          /\ p_fin = "closed" => calls.fclose_fin = 1
          /\ p_fout = "closed" => calls.fclose_fout = 1

====
